---- MODULE Spec2Model ----
(***************************************************************************)
(* A model of sample/datahub.py: the Database class that inventories,      *)
(* downloads, unzips and refreshes data tables below RawData/; and of the  *)
(* request functions and the date conversion of sample/queries.py.         *)
(*                                                                         *)
(* Python strings are sequences of one-character strings, so that slicing, *)
(* concatenation and the character filter of the header clean-up are the   *)
(* operations the code performs.  A dict is a function whose DOMAIN is the *)
(* set of its keys.  A CSV file is the sequence of its rows, a row the     *)
(* sequence of its cells.  A zip file is the sequence of its entries.      *)
(***************************************************************************)
EXTENDS Integers, Sequences, FiniteSets, TLC

VARIABLES
    meta_data,  \* self.meta_data: data_name -> (key -> value)
    store,      \* contents of RawData/meta_data.p (NoFile when it is missing)
    files,      \* the other files below RawData/: path -> contents
    clock,      \* what datetime.datetime.now() returns next
    last,       \* the call that was made last, and how it ended
    calls,      \* per caller, the add_data or update_data it is in the middle of
    query       \* the call of a function of queries.py that was made last

vars == <<meta_data, store, files, clock, last, calls, query>>

\* ------------------------------------------------------------------ bounds

\* datetime.now() is capped: every fetch takes one tick of the clock, and no
\* fetch starts once the clock has reached the cap.
MaxClock == 2

\* ------------------------------------------------------- strings and keys

DL_URL == <<"d", "l", "_", "u", "r", "l">>
DATA_FILE == <<"d", "a", "t", "a", "_", "f", "i", "l", "e">>
META_DATA == <<"m", "e", "t", "a", "_", "d", "a", "t", "a">>
UPDATED == <<"u", "p", "d", "a", "t", "e", "d">>

RAWDATA == <<"R", "a", "w", "D", "a", "t", "a", "/">>
TEMP == RAWDATA \o <<"t", "e", "m", "p">>
ZIP == <<".", "z", "i", "p">>
\* the entry name that extracts to the path _download_data reads back
METAFILE_NAME ==
    <<"1", "1", "1", "0", "0", "1", "3", "4", "_", "M", "e", "t", "a",
      "D", "a", "t", "a", ".", "c", "s", "v">>
METAFILE == RAWDATA \o METAFILE_NAME
\* the characters the header clean-up drops: the three characters of a
\* mis-decoded byte order mark, and the double quote
STRIP_CHARS == {"i_diaeresis", "guillemet", "inverted_question", "\""}

EmptyDict == <<>>

\* d.update(e)
DictUpdate(d, e) ==
    [k \in (DOMAIN d) \cup (DOMAIN e) |-> IF k \in DOMAIN e THEN e[k] ELSE d[k]]

\* d[key] = value
DictSet(d, key, value) ==
    [k \in (DOMAIN d) \cup {key} |-> IF k = key THEN value ELSE d[k]]

Min(a, b) == IF a < b THEN a ELSE b
Max(a, b) == IF a > b THEN a ELSE b

\* s.rfind(c): the highest 0-based index of c in s, or -1
PyRFind(s, c) ==
    LET hits == {i \in 1..Len(s) : s[i] = c}
    IN  IF hits = {} THEN -1
        ELSE (CHOOSE i \in hits : \A j \in hits : j <= i) - 1

\* s[i:] for a 0-based i, which counts from the end when negative
PySliceFrom(s, i) ==
    LET start == IF i < 0 THEN Max(Len(s) + i, 0) ELSE Min(i, Len(s))
    IN  SubSeq(s, start + 1, Len(s))

\* ''.join(c for c in d if c not in STRIP_CHARS)
CleanHeader(d) == SelectSeq(d, LAMBDA c : c \notin STRIP_CHARS)

\* dict(zip(keys, values)): pairs up to the shorter length, a later pair
\* with the same key wins
ZipDict(keys, values) ==
    LET n == Min(Len(keys), Len(values))
    IN  [k \in {keys[i] : i \in 1..n} |->
            values[CHOOSE i \in 1..n :
                       /\ keys[i] = k
                       /\ \A j \in 1..n : keys[j] = k => j <= i]]

\* --------------------------------------------------------------- the files

\* A file is a zip archive (body: its entries in listing order, each a name
\* and the rows of the CSV it holds) or a text file (body: its CSV rows).
ZipFile(entries) == [kind |-> "zip", body |-> entries]
TextFile(rows) == [kind |-> "text", body |-> rows]
Entry(name, rows) == [name |-> name, rows |-> rows]

\* pathlib.Path(p).unlink() that succeeds
Unlink(fs, path) == [p \in (DOMAIN fs) \ {path} |-> fs[p]]

\* zip_ref.extractall('RawData') that writes the first k entries, in listing
\* order, and then stops (k = Len(entries) when it completes)
ExtractAll(fs, entries, k) ==
    LET path(i) == RAWDATA \o entries[i].name
        written == {path(i) : i \in 1..k}
    IN  [p \in (DOMAIN fs) \cup written |->
            IF p \in written
            THEN TextFile(entries[CHOOSE i \in 1..k :
                              /\ path(i) = p
                              /\ \A j \in 1..k : path(j) = p => j <= i].rows)
            ELSE fs[p]]

\* --------------------------------------------------------------- exceptions

NoExc == [type |-> "None", arg |-> <<>>]
Raise(type, arg) == [type |-> type, arg |-> arg]

\* ----------------------------------------------------------- _download_data

\* Where _download_data stops: the dict and the files as it leaves them,
\* the exception it raises, and whether urlretrieve was called.
Outcome(md, fs, exc, retrieved) ==
    [md |-> md, files |-> fs, exc |-> exc, retrieved |-> retrieved]

\* the metadata step that updates every record of the dict with the
\* header/value pairs of the one file it reads
MergeMetaData_into_all(md, fs, data_name) ==
    IF METAFILE \notin DOMAIN fs
    THEN Outcome(md, fs, Raise("FileNotFoundError", METAFILE), TRUE)
    ELSE LET rows == fs[METAFILE].body
             result == SubSeq(rows, 1, Min(2, Len(rows)))
         IN  IF Len(result) < 2
             THEN Outcome(md, fs, Raise("IndexError", <<>>), TRUE)
             ELSE LET headers == [i \in 1..Len(result[1]) |->
                                     CleanHeader(result[1][i])]
                      pairs == ZipDict(headers, result[2])
                  IN  Outcome([n \in DOMAIN md |-> DictUpdate(md[n], pairs)],
                              fs, NoExc, TRUE)

\* lines 64-75: read the first two rows of the metadata file, clean the
\* headers, and update the record with the header/value pairs
MergeMetaData(md, fs, data_name) ==
    IF METAFILE \notin DOMAIN fs
    THEN Outcome(md, fs, Raise("FileNotFoundError", METAFILE), TRUE)
    ELSE LET rows == fs[METAFILE].body
             result == SubSeq(rows, 1, Min(2, Len(rows)))
         IN  IF Len(result) < 2
             THEN Outcome(md, fs, Raise("IndexError", <<>>), TRUE)
             ELSE LET headers == [i \in 1..Len(result[1]) |->
                                     CleanHeader(result[1][i])]
                      pairs == ZipDict(headers, result[2])
                  IN  Outcome([md EXCEPT ![data_name] = DictUpdate(@, pairs)],
                              fs, NoExc, TRUE)

\* lines 53-62: record the first two names of the archive listing as the
\* data and the metadata file, and extract the archive
ExtractArchive(md, fs, data_name, dl_type, download, env) ==
    IF dl_type # ZIP
    THEN Outcome(md, fs, Raise("TypeError", <<>>), TRUE)
    ELSE IF fs[download].kind # "zip"
    THEN Outcome(md, fs, Raise("BadZipFile", <<>>), TRUE)
    ELSE LET namelist == fs[download].body
         IN  IF Len(namelist) < 1
             THEN Outcome(md, fs, Raise("IndexError", <<>>), TRUE)
             ELSE LET md1 == [md EXCEPT ![data_name] =
                                 DictSet(@, DATA_FILE,
                                         RAWDATA \o namelist[1].name)]
                  IN  IF Len(namelist) < 2
                      THEN Outcome(md1, fs, Raise("IndexError", <<>>), TRUE)
                      ELSE LET md2 == [md1 EXCEPT ![data_name] =
                                          DictSet(@, META_DATA,
                                                  RAWDATA \o namelist[2].name)]
                               k == Min(env.extracted, Len(namelist))
                               fs1 == ExtractAll(fs, namelist, k)
                           IN  IF k < Len(namelist)
                               THEN Outcome(md2, fs1, Raise("OSError", <<>>),
                                            TRUE)
                               ELSE Outcome(md2, fs1, NoExc, TRUE)

\* the end of _download_data that stamps a record once
\* (self.meta_data[data_name].setdefault('updated', now))
Finish_stamping_once(md, fs, data_name, download, env, now) ==
    Outcome([md EXCEPT ![data_name] =
                IF UPDATED \in DOMAIN @ THEN @ ELSE DictSet(@, UPDATED, now)],
            IF env.unlink_ok THEN Unlink(fs, download) ELSE fs,
            NoExc, TRUE)

\* the end of _download_data without the try/except around unlink(): a
\* failure to delete is raised
Finish_raising(md, fs, data_name, download, env, now) ==
    Outcome([md EXCEPT ![data_name] = DictSet(@, UPDATED, now)],
            IF env.unlink_ok THEN Unlink(fs, download) ELSE fs,
            IF env.unlink_ok THEN NoExc ELSE Raise("OSError", download),
            TRUE)

\* lines 77-83: stamp the record, and delete the downloaded file (a failure
\* to delete is printed, not raised)
Finish(md, fs, data_name, download, env, now) ==
    Outcome([md EXCEPT ![data_name] = DictSet(@, UPDATED, now)],
            IF env.unlink_ok THEN Unlink(fs, download) ELSE fs,
            NoExc, TRUE)

\* line 48: dl_url[dl_url.rfind('.'):]
DlType(dl_url) == PySliceFrom(dl_url, PyRFind(dl_url, "."))

\* _download_data(data_name), in the environment env: what the remote
\* serves (or that the retrieval fails), how far extractall gets, and
\* whether the downloaded file can be deleted.
DownloadData(md, fs, data_name, env, now) ==
    IF data_name \notin DOMAIN md
    THEN Outcome(md, fs, Raise("KeyError", data_name), FALSE)
    ELSE IF DL_URL \notin DOMAIN md[data_name]
    THEN Outcome(md, fs, Raise("KeyError", DL_URL), FALSE)
    ELSE LET dl_url == md[data_name][DL_URL]
             dl_type == DlType(dl_url)
             download == TEMP \o dl_type
         IN  IF env.served.kind = "unreachable"
             THEN Outcome(md, fs, Raise("URLError", dl_url), TRUE)
             ELSE LET fs0 == DictSet(fs, download, env.served)
                      x == ExtractArchive(md, fs0, data_name, dl_type,
                                          download, env)
                  IN  IF x.exc # NoExc THEN x
                      ELSE LET m == MergeMetaData(x.md, x.files, data_name)
                           IN  IF m.exc # NoExc THEN m
                               ELSE Finish(m.md, m.files, data_name,
                                           download, env, now)

\* ------------------------------------------------------------ save and load

\* The pickle file when it does not exist
NoFile == [exists |-> FALSE, names |-> {}, items |-> {}]

\* a dump that writes strings only and leaves out the datetime of 'updated'
Pickle_strings_only(md) ==
    [exists |-> TRUE,
     names |-> DOMAIN md,
     items |-> UNION {{<<n, k, md[n][k]>> : k \in (DOMAIN md[n]) \ {UPDATED}} :
                         n \in DOMAIN md}]

\* pickle.dump(self.meta_data, ...): the file lists the names and, per name,
\* the key/value items of its record
Pickle(md) ==
    [exists |-> TRUE,
     names |-> DOMAIN md,
     items |-> UNION {{<<n, k, md[n][k]>> : k \in DOMAIN md[n]} :
                         n \in DOMAIN md}]

\* pickle.load(...) of such a file
Unpickle(p) ==
    [n \in p.names |->
        LET mine == {t \in p.items : t[1] = n}
        IN  [k \in {t[2] : t \in mine} |->
                (CHOOSE t \in mine : t[2] = k)[3]]]

\* save() as a per-record write would do it: only the records that a fetch
\* has completed reach the file
save_fetched_only(md) ==
    Pickle([n \in {m \in DOMAIN md : UPDATED \in DOMAIN md[m]} |-> md[n]])

\* save(): line 99
save(md) == Pickle(md)

\* ------------------------------------------------------------ the methods

\* What a method call leaves behind and hands back.
Result(md, fs, st, exc, retrieved, ret) ==
    [md |-> md, files |-> fs, store |-> st, exc |-> exc,
     retrieved |-> retrieved, ret |-> ret]

\* __init__ that does not save the dict it creates
init_without_save(fs, st) ==
    IF st.exists
    THEN Result(Unpickle(st), fs, st, NoExc, FALSE, <<>>)
    ELSE Result(EmptyDict, fs, st, NoExc, FALSE, <<>>)

\* __init__(): lines 34-38
init(fs, st) ==
    IF st.exists
    THEN Result(Unpickle(st), fs, st, NoExc, FALSE, <<>>)
    ELSE Result(EmptyDict, fs, save(EmptyDict), NoExc, FALSE, <<>>)

\* add_data that sets the url in the record it finds
\* (self.meta_data.setdefault(data_name, {})['dl_url'] = dl_url)
add_data_merging(md, fs, st, data_name, dl_url, env, now) ==
    LET old == IF data_name \in DOMAIN md THEN md[data_name] ELSE EmptyDict
        md0 == DictSet(md, data_name, DictSet(old, DL_URL, dl_url))
        d == DownloadData(md0, fs, data_name, env, now)
    IN  Result(d.md, d.files, IF d.exc = NoExc THEN save(d.md) ELSE st,
               d.exc, d.retrieved, <<>>)

\* add_data that saves the dict as soon as it has registered the url, and
\* again after the fetch
add_data_saving_first(md, fs, st, data_name, dl_url, env, now) ==
    LET md0 == DictSet(md, data_name, DL_URL :> dl_url)
        d == DownloadData(md0, fs, data_name, env, now)
    IN  Result(d.md, d.files,
               IF d.exc = NoExc THEN save(d.md) ELSE save(md0),
               d.exc, d.retrieved, <<>>)

\* add_data(data_name, dl_url): lines 110-114
add_data(md, fs, st, data_name, dl_url, env, now) ==
    LET md0 == DictSet(md, data_name, DL_URL :> dl_url)
        d == DownloadData(md0, fs, data_name, env, now)
    IN  Result(d.md, d.files, IF d.exc = NoExc THEN save(d.md) ELSE st,
               d.exc, d.retrieved, <<>>)

\* update_data that registers a name it does not know
\* (self.meta_data.setdefault(data_name, {})) before it fetches
update_data_registering(md, fs, st, data_name, env, now) ==
    LET md0 == IF data_name \in DOMAIN md THEN md
               ELSE DictSet(md, data_name, EmptyDict)
        d == DownloadData(md0, fs, data_name, env, now)
    IN  Result(d.md, d.files, IF d.exc = NoExc THEN save(d.md) ELSE st,
               d.exc, d.retrieved, <<>>)

\* update_data(data_name): lines 122-123
update_data(md, fs, st, data_name, env, now) ==
    LET d == DownloadData(md, fs, data_name, env, now)
    IN  Result(d.md, d.files, IF d.exc = NoExc THEN save(d.md) ELSE st,
               d.exc, d.retrieved, <<>>)

\* load_data(data_name): line 95.  pandas.read_csv hands back the rows of
\* the file; it raises when the file is missing, is no CSV text or is empty.
load_data(md, fs, st, data_name) ==
    IF data_name \notin DOMAIN md
    THEN Result(md, fs, st, Raise("KeyError", data_name), FALSE, <<>>)
    ELSE IF DATA_FILE \notin DOMAIN md[data_name]
    THEN Result(md, fs, st, Raise("KeyError", DATA_FILE), FALSE, <<>>)
    ELSE LET path == md[data_name][DATA_FILE]
         IN  IF path \notin DOMAIN fs
             THEN Result(md, fs, st, Raise("FileNotFoundError", path),
                         FALSE, <<>>)
             ELSE IF fs[path].kind # "text"
             THEN Result(md, fs, st, Raise("ParserError", <<>>), FALSE, <<>>)
             ELSE IF fs[path].body = <<>>
             THEN Result(md, fs, st, Raise("EmptyDataError", <<>>), FALSE,
                         <<>>)
             ELSE Result(md, fs, st, NoExc, FALSE, fs[path].body)

\* filter_meta that filters self.meta_data in place and returns it
filter_meta_in_place(md, fs, st, attributes) ==
    LET meta == [k \in DOMAIN md |->
                    [sk \in {a \in DOMAIN md[k] : a \in attributes} |->
                        md[k][sk]]]
    IN  Result(meta, fs, st, NoExc, FALSE, meta)

\* filter_meta that makes an entry for a data table at its first match
\* (meta.setdefault(k, {})[sk] = v), so a table with no match has none
filter_meta_matches_only(md, fs, st, attributes) ==
    LET matched == {k \in DOMAIN md : (DOMAIN md[k]) \cap attributes # {}}
        meta == [k \in matched |->
                    [sk \in {a \in DOMAIN md[k] : a \in attributes} |->
                        md[k][sk]]]
    IN  Result(md, fs, st, NoExc, FALSE, meta)

\* filter_meta(attributes): lines 135-141
filter_meta(md, fs, st, attributes) ==
    LET meta == [k \in DOMAIN md |->
                    [sk \in {a \in DOMAIN md[k] : a \in attributes} |->
                        md[k][sk]]]
    IN  Result(md, fs, st, NoExc, FALSE, meta)

\* ---------------------------------------------------- the calls considered

\* an archive lists at most this many entries
MaxEntries == 2

NAME_A == <<"a">>
NAME_B == <<"b">>
Names == {NAME_A, NAME_B}

URL_A == <<"a", ".", "z", "i", "p">>
URL_B == <<"b", ".", "z", "i", "p">>
URL_TAR == <<"x", ".", "t", "a", "r">>
Urls == {URL_A, URL_B, URL_TAR}

\* entry names and cells
D1 == <<"d", "1">>
D2 == <<"d", "2">>
M2 == <<"m", "2">>
H_A == <<"A">>
H_B == <<"B">>
H_C == <<"C">>
\* "A" as the first header of a file that starts with a byte order mark
H_A_RAW == <<"i_diaeresis", "guillemet", "inverted_question", "\"", "A", "\"">>
V_1 == <<"1">>
V_2 == <<"2">>
V_3 == <<"3">>

DATA_1 == << <<H_A>>, <<V_1>> >>
DATA_2 == << <<H_A>>, <<V_2>> >>

\* What the remote has to serve, and at which url.
Z_ONE == ZipFile(<<Entry(D2, DATA_2)>>)
Z_MAIN == ZipFile(<<Entry(D1, DATA_1),
                    Entry(METAFILE_NAME, << <<H_A_RAW, H_B>>, <<V_1, V_2>> >>)>>)
Z_NEXT == ZipFile(<<Entry(D2, DATA_2),
                    Entry(METAFILE_NAME, << <<H_B>>, <<V_3>> >>)>>)
Z_OWN == ZipFile(<<Entry(D2, DATA_2),
                   Entry(M2, << <<H_C>>, <<V_3>> >>)>>)
Z_URL == ZipFile(<<Entry(D1, DATA_2),
                   Entry(METAFILE_NAME, << <<DL_URL>>, <<URL_TAR>> >>)>>)
Z_SHORT == ZipFile(<<Entry(D1, DATA_1),
                     Entry(METAFILE_NAME, << <<H_A>> >>)>>)
NOT_ZIP == TextFile(DATA_1)

Served(url) ==
    IF url = URL_A THEN {Z_MAIN, Z_NEXT, Z_ONE, NOT_ZIP}
    ELSE IF url = URL_B THEN {Z_OWN, Z_URL, Z_SHORT}
    ELSE {NOT_ZIP}

Unreachable == [kind |-> "unreachable", body |-> <<>>]

\* The environments of a fetch from url: what urlretrieve gets (or that it
\* fails), how many entries extractall writes before it fails (MaxEntries:
\* all of them), whether the downloaded file can be deleted.  The extraction
\* and the deletion are only reached for an archive of two entries or more,
\* so only then do they vary, and one at a time.
Envs(url) ==
    {e \in [served : Served(url) \cup {Unreachable},
            extracted : 0..MaxEntries,
            unlink_ok : BOOLEAN] :
        \/ e.extracted = MaxEntries /\ e.unlink_ok
        \/ /\ e.served.kind = "zip"
           /\ Len(e.served.body) >= 2
           /\ \/ e.extracted = MaxEntries
              \/ e.extracted < Len(e.served.body) /\ e.unlink_ok}

\* the environments of _download_data(data_name)
FetchEnvs(md, data_name) ==
    IF data_name \in DOMAIN md /\ DL_URL \in DOMAIN md[data_name]
    THEN Envs(md[data_name][DL_URL])
    ELSE Envs(<<>>)

AttributeLists == {{}, {DL_URL}, {DATA_FILE, H_A, H_C}}

\* the methods that fetch
Fetches == {"add_data", "update_data"}

\* ---------------------------------------------------------------- queries.py

\* None
PyNone == [type |-> "NoneType", items |-> <<>>]

\* str(n) of an int n >= 0: its decimal digits, without padding
RECURSIVE PyStr(_)
PyStr(n) ==
    LET digit == <<"0", "1", "2", "3", "4", "5", "6", "7", "8", "9">>
    IN  IF n < 10 THEN <<digit[n + 1]>>
        ELSE PyStr(n \div 10) \o <<digit[(n % 10) + 1]>>

\* sep.join(parts)
RECURSIVE PyJoin(_, _)
PyJoin(sep, parts) ==
    IF parts = <<>> THEN <<>>
    ELSE IF Len(parts) = 1 THEN parts[1]
    ELSE parts[1] \o sep \o PyJoin(sep, Tail(parts))

\* The texts a response can have, and result.json() of each: the JSON value
\* of a text that is JSON, and the decoding error of one that is not (the
\* empty text is not JSON either).
TEXT_EMPTY == <<>>
TEXT_OBJECT == <<"{", "}">>
TEXT_ARRAY == <<"[", "1", "]">>
TEXT_NULL == <<"n", "u", "l", "l">>
TEXT_HTML == <<"<", "p", ">">>
JsonLoads(text) ==
    IF text = TEXT_OBJECT
    THEN [exc |-> NoExc, value |-> [type |-> "dict", items |-> <<>>]]
    ELSE IF text = TEXT_ARRAY
    THEN [exc |-> NoExc, value |-> [type |-> "list", items |-> <<1>>]]
    ELSE IF text = TEXT_NULL
    THEN [exc |-> NoExc, value |-> PyNone]
    ELSE [exc |-> Raise("JSONDecodeError", text), value |-> PyNone]

\* What requests.get or requests.post hands back: a response with its
\* status code and text, or no response when the connection fails.
Response(status_code, text) ==
    [kind |-> "response", status_code |-> status_code, text |-> text]
NoResponse == [kind |-> "none", status_code |-> 0, text |-> <<>>]

\* what a function of queries.py requested, raised and returned
Answer(url, exc, ret) == [url |-> url, exc |-> exc, ret |-> ret]

\* _get that looks at the text before it looks at the status code
_get_text_first(url, result) ==
    IF result.kind = "none"
    THEN Answer(url, Raise("ConnectionError", url), PyNone)
    ELSE IF result.text = <<>>
    THEN Answer(url, Raise("EmptyJsonError", [url |-> url, json |-> PyNone]),
                PyNone)
    ELSE IF result.status_code >= 500
    THEN Answer(url, Raise("ServerFailedError", PyStr(result.status_code)),
                PyNone)
    ELSE LET j == JsonLoads(result.text)
         IN  Answer(url, j.exc, j.value)

\* _get(url): lines 87-93, where result is what requests.get(url) gives
_get(url, result) ==
    IF result.kind = "none"
    THEN Answer(url, Raise("ConnectionError", url), PyNone)
    ELSE IF result.status_code >= 500
    THEN Answer(url, Raise("ServerFailedError", PyStr(result.status_code)),
                PyNone)
    ELSE IF result.text = <<>>
    THEN Answer(url, Raise("EmptyJsonError", [url |-> url, json |-> PyNone]),
                PyNone)
    ELSE LET j == JsonLoads(result.text)
         IN  Answer(url, j.exc, j.value)

\* _post(url, json): lines 105-111, where result is what
\* requests.post(url, json=json) gives
_post(url, json, result) ==
    IF result.kind = "none"
    THEN Answer(url, Raise("ConnectionError", url), PyNone)
    ELSE IF result.status_code >= 500
    THEN Answer(url, Raise("ServerFailedError", PyStr(result.status_code)),
                PyNone)
    ELSE IF result.text = <<>>
    THEN Answer(url, Raise("EmptyJsonError", [url |-> url, json |-> json]),
                PyNone)
    ELSE LET j == JsonLoads(result.text)
         IN  Answer(url, j.exc, j.value)

\* The arguments that stand for a date: a str, a datetime.date, a
\* datetime.datetime (a subclass of datetime.date) and None.
PyStrValue(text) ==
    [type |-> "str", text |-> text, year |-> 0, month |-> 0, day |-> 0]
PyDate(year, month, day) ==
    [type |-> "date", text |-> <<>>, year |-> year, month |-> month,
     day |-> day]
PyDateTime(year, month, day) ==
    [type |-> "datetime", text |-> <<>>, year |-> year, month |-> month,
     day |-> day]
NoDate == [type |-> "NoneType", text |-> <<>>, year |-> 0, month |-> 0,
           day |-> 0]

\* isinstance(date, datetime.date)
IsInstanceOfDate(date) == date.type \in {"date", "datetime"}

\* _convert_date that writes the date as date.isoformat() does, month and
\* day in two digits
_convert_date_isoformat(date) ==
    LET two(n) == IF n < 10 THEN <<"0">> \o PyStr(n) ELSE PyStr(n)
    IN  IF IsInstanceOfDate(date)
        THEN PyStrValue(PyJoin(<<"-">>, <<PyStr(date.year), two(date.month),
                                         two(date.day)>>))
        ELSE date

\* _convert_date(date): lines 122-125
_convert_date(date) ==
    IF IsInstanceOfDate(date)
    THEN PyStrValue(PyJoin(<<"-">>, <<PyStr(date.year), PyStr(date.month),
                                     PyStr(date.day)>>))
    ELSE date

\* line 184
CHANGED_CUBE_LIST_URL ==
    <<"h", "t", "t", "p", "s", ":", "/", "/", "w", "w", "w", "1",
      "5", "0", ".", "s", "t", "a", "t", "c", "a", "n", ".", "g",
      "c", ".", "c", "a", "/", "t", "1", "/", "w", "d", "s", "/",
      "r", "e", "s", "t", "/", "g", "e", "t", "C", "h", "a", "n",
      "g", "e", "d", "C", "u", "b", "e", "L", "i", "s", "t", "/">>

\* get_changed_cube_list(date): lines 184-191
get_changed_cube_list(date, result) ==
    LET url == IF date.type = "str"
               THEN CHANGED_CUBE_LIST_URL \o date.text
               ELSE IF date.type = "date"
               THEN CHANGED_CUBE_LIST_URL \o _convert_date(date).text
               ELSE CHANGED_CUBE_LIST_URL
    IN  _get(url, result)

\* The last call of a function of queries.py: the function, its arguments,
\* what the remote answered, and the outcome.
Queried(fn, json, date, result, a) ==
    [fn |-> fn, url |-> a.url, json |-> json, date |-> date,
     result |-> result, exc |-> a.exc, ret |-> a.ret]
NoQuery == Queried("none", PyNone, NoDate, NoResponse,
                   Answer(<<>>, NoExc, PyNone))

\* ------------------------------------------------------------------ actions

\* the environment recorded for a call that fetches nothing
NoEnv == [served |-> Unreachable, extracted |-> MaxEntries, unlink_ok |-> TRUE]

\* The record of a call: the method, its arguments, the environment it ran
\* in, the exception it raised and the value it returned.
Called(op, data_name, dl_url, attributes, env, r) ==
    [op |-> op, name |-> data_name, url |-> dl_url,
     attributes |-> attributes, env |-> env, exc |-> r.exc,
     retrieved |-> r.retrieved, ret |-> r.ret]

\* The callers, and a caller that is in no call.  One caller at a time is
\* what the class is written for; the second one is there for the
\* specification in which calls overlap.
Callers == {1, 2}
Idle ==
    [pc |-> "idle", op |-> "none", name |-> <<>>, url |-> <<>>,
     retrieved |-> Unreachable, opened |-> Unreachable, overlapped |-> FALSE]

\* a method that runs from its call to its return with no other call in
\* between
Commit(r) ==
    /\ meta_data' = r.md
    /\ files' = r.files
    /\ store' = r.store
    /\ UNCHANGED <<calls, query>>

Init ==
    LET r == init(EmptyDict, NoFile)
    IN  /\ meta_data = r.md
        /\ files = r.files
        /\ store = r.store
        /\ clock = 0
        /\ last = Called("init", <<>>, <<>>, {}, NoEnv, r)
        /\ calls = [t \in Callers |-> Idle]
        /\ query = NoQuery

\* a new process constructs the Database over the files as they are
Construct ==
    LET r == init(files, store)
    IN  /\ Commit(r)
        /\ last' = Called("init", <<>>, <<>>, {}, NoEnv, r)
        /\ UNCHANGED clock

AddData ==
    /\ clock < MaxClock
    /\ \E data_name \in Names, dl_url \in Urls :
       \E env \in Envs(dl_url) :
          LET r == add_data(meta_data, files, store, data_name, dl_url,
                            env, clock)
          IN  /\ Commit(r)
              /\ last' = Called("add_data", data_name, dl_url, {}, env, r)
    /\ clock' = clock + 1

UpdateData ==
    /\ clock < MaxClock
    /\ \E data_name \in Names :
       \E env \in FetchEnvs(meta_data, data_name) :
          LET r == update_data(meta_data, files, store, data_name, env, clock)
          IN  /\ Commit(r)
              /\ last' = Called("update_data", data_name, <<>>, {}, env, r)
    /\ clock' = clock + 1

LoadData ==
    /\ \E data_name \in Names :
          LET r == load_data(meta_data, files, store, data_name)
          IN  /\ Commit(r)
              /\ last' = Called("load_data", data_name, <<>>, {}, NoEnv, r)
    /\ UNCHANGED clock

FilterMeta ==
    /\ \E attributes \in AttributeLists :
          LET r == filter_meta(meta_data, files, store, attributes)
          IN  /\ Commit(r)
              /\ last' = Called("filter_meta", <<>>, <<>>, attributes, NoEnv, r)
    /\ UNCHANGED clock

Next ==
    \/ Construct
    \/ AddData
    \/ UpdateData
    \/ LoadData
    \/ FilterMeta

Spec == Init /\ [][Next]_vars

\* ------------------------------------------------------- overlapping calls

\* urlretrieve that leaves a file that is already there as it is
Download_keeping(fs, download, served) ==
    IF download \in DOMAIN fs THEN fs ELSE DictSet(fs, download, served)

\* line 51: urlretrieve writes what it gets to the file named download
Download(fs, download, served) == DictSet(fs, download, served)

\* lines 53-83 as a caller runs them when urlretrieve has returned: the
\* file named download is then what the last urlretrieve of any caller
\* wrote, and it is missing when another caller has deleted it
AfterRetrieval(md, fs, data_name, dl_type, download, env, now) ==
    IF dl_type = ZIP /\ download \notin DOMAIN fs
    THEN Outcome(md, fs, Raise("FileNotFoundError", download), TRUE)
    ELSE LET x == ExtractArchive(md, fs, data_name, dl_type, download, env)
         IN  IF x.exc # NoExc THEN x
             ELSE LET m == MergeMetaData(x.md, x.files, data_name)
                  IN  IF m.exc # NoExc THEN m
                      ELSE Finish(m.md, m.files, data_name, download, env,
                                  now)

Active(c) == c.pc \in {"retrieve", "extract"}

\* caller t has returned from its call with result r
Returned(t, env, r) ==
    /\ last' = Called(calls[t].op, calls[t].name, calls[t].url, {}, env, r)
    /\ store' = r.store

\* Caller t makes its one call, of add_data or update_data, and runs it up
\* to urlretrieve (lines 110 and 47-50); update_data of an unknown name
\* ends here.
Begin(t) ==
    /\ calls[t].pc = "idle"
    /\ UNCHANGED query
    /\ clock < MaxClock
    /\ clock' = clock + 1
    /\ UNCHANGED files
    /\ \E op \in Fetches, data_name \in Names, dl_url \in Urls :
          LET md0 == IF op = "add_data"
                     THEN DictSet(meta_data, data_name, DL_URL :> dl_url)
                     ELSE meta_data
              busy == \E u \in Callers \ {t} : Active(calls[u])
          IN  /\ meta_data' = md0
              /\ IF data_name \in DOMAIN md0
                 THEN /\ calls' =
                            [u \in Callers |->
                                IF u = t
                                THEN [pc |-> "retrieve", op |-> op,
                                      name |-> data_name,
                                      url |-> md0[data_name][DL_URL],
                                      retrieved |-> Unreachable,
                                      opened |-> Unreachable,
                                      overlapped |-> busy]
                                ELSE [calls[u] EXCEPT !.overlapped =
                                         @ \/ Active(calls[u])]]
                      /\ UNCHANGED <<last, store>>
                 ELSE /\ calls' = [calls EXCEPT ![t] =
                                      [Idle EXCEPT !.pc = "done", !.op = op,
                                                   !.name = data_name]]
                      /\ last' = Called(op, data_name, <<>>, {}, NoEnv,
                                        Result(md0, files, store,
                                               Raise("KeyError", data_name),
                                               FALSE, <<>>))
                      /\ UNCHANGED store

\* Caller t runs urlretrieve (line 51).
Retrieve(t) ==
    /\ calls[t].pc = "retrieve"
    /\ UNCHANGED query
    /\ UNCHANGED <<meta_data, clock>>
    /\ \E served \in Served(calls[t].url) \cup {Unreachable} :
          LET download == TEMP \o DlType(calls[t].url)
              env == [NoEnv EXCEPT !.served = served]
          IN  IF served = Unreachable
              THEN /\ calls' = [calls EXCEPT ![t].pc = "done"]
                   /\ Returned(t, env,
                               Result(meta_data, files, store,
                                      Raise("URLError", calls[t].url),
                                      TRUE, <<>>))
                   /\ UNCHANGED files
              ELSE /\ files' = Download(files, download, served)
                   /\ calls' = [calls EXCEPT ![t].pc = "extract",
                                             ![t].retrieved = served]
                   /\ UNCHANGED <<last, store>>

\* Caller t runs the rest of _download_data (lines 53-83) and, when that
\* raises nothing, save().
Extract(t) ==
    /\ calls[t].pc = "extract"
    /\ UNCHANGED query
    /\ UNCHANGED clock
    /\ \E unlink_ok \in BOOLEAN :
          LET dl_type == DlType(calls[t].url)
              download == TEMP \o dl_type
              env == [served |-> calls[t].retrieved,
                      extracted |-> MaxEntries, unlink_ok |-> unlink_ok]
              d == AfterRetrieval(meta_data, files, calls[t].name, dl_type,
                                  download, env, clock)
              opened == IF dl_type = ZIP /\ download \in DOMAIN files
                        THEN files[download] ELSE Unreachable
          IN  /\ meta_data' = d.md
              /\ files' = d.files
              /\ calls' = [calls EXCEPT ![t].pc = "done",
                                        ![t].opened = opened]
              /\ Returned(t, env,
                          Result(d.md, d.files,
                                 IF d.exc = NoExc THEN save(d.md) ELSE store,
                                 d.exc, TRUE, <<>>))

NextOverlapping == \E t \in Callers : Begin(t) \/ Retrieve(t) \/ Extract(t)

SpecOverlapping == Init /\ [][NextOverlapping]_vars


\* -------------------------------------------------------- calls of queries.py

\* The urls, post bodies, responses and dates of the calls.
QUERY_URL_1 == <<"u", "1">>
QUERY_URL_2 == <<"u", "2">>
QueryUrls == {QUERY_URL_1, QUERY_URL_2}
PostBodies == {[type |-> "list", items |-> <<1>>],
               [type |-> "list", items |-> <<2>>]}
StatusCodes == {200, 404, 499, 500, 503}
Texts == {TEXT_EMPTY, TEXT_OBJECT, TEXT_ARRAY, TEXT_NULL, TEXT_HTML}
Responses ==
    {Response(c, t) : c \in StatusCodes, t \in Texts} \cup {NoResponse}
DATE_PADDED == <<"2", "0", "2", "1", "-", "0", "5", "-", "0", "3">>
DATE_PLAIN == <<"2", "0", "2", "1", "-", "5", "-", "3">>
Dates == {PyStrValue(DATE_PADDED), PyStrValue(DATE_PLAIN), PyStrValue(<<>>),
          PyDate(2021, 5, 3), PyDate(2021, 12, 31), PyDate(987, 10, 9),
          PyDateTime(2021, 5, 3), NoDate}

\* a call of a function of queries.py touches nothing of the Database
QueryOnly == UNCHANGED <<meta_data, store, files, clock, last, calls>>

Get ==
    /\ \E url \in QueryUrls, result \in Responses :
          query' = Queried("_get", PyNone, NoDate, result, _get(url, result))
    /\ QueryOnly

Post ==
    /\ \E url \in QueryUrls, json \in PostBodies, result \in Responses :
          query' = Queried("_post", json, NoDate, result,
                           _post(url, json, result))
    /\ QueryOnly

ConvertDate ==
    /\ \E date \in Dates :
          query' = Queried("_convert_date", PyNone, date, NoResponse,
                           Answer(<<>>, NoExc, _convert_date(date)))
    /\ QueryOnly

GetChangedCubeList ==
    /\ \E date \in Dates, result \in Responses :
          query' = Queried("get_changed_cube_list", PyNone, date, result,
                           get_changed_cube_list(date, result))
    /\ QueryOnly

NextQueries ==
    \/ Get
    \/ Post
    \/ ConvertDate
    \/ GetChangedCubeList

SpecQueries == Init /\ [][NextQueries]_vars

\* ------------------------------------------------------------------- claims

RecordKeys == {DL_URL, DATA_FILE, META_DATA, UPDATED}

\* the keys of a record that its fetches merged in from a header row
ExtraKeys(record) == (DOMAIN record) \ RecordKeys

\* the header/value pairs of the CSV file at path
HeaderPairs(fs, path) ==
    LET rows == fs[path].body
    IN  ZipDict([i \in 1..Len(rows[1]) |-> CleanHeader(rows[1][i])], rows[2])

\* C1: in every reachable state every record has its 'data_file' and its
\* 'meta_data' path both present or both absent.
C1_PathsTogether ==
    \A n \in DOMAIN meta_data :
        (DATA_FILE \in DOMAIN meta_data[n])
            <=> (META_DATA \in DOMAIN meta_data[n])

\* C2: an update_data of an already-fetched dataset that fails leaves the
\* record of the dataset exactly as it was before the call.
C2_FailedUpdateKeepsRecord ==
    [][(/\ last'.op = "update_data"
        /\ last'.exc # NoExc
        /\ last'.name \in DOMAIN meta_data
        /\ {DATA_FILE, META_DATA, UPDATED} \subseteq
               DOMAIN meta_data[last'.name])
       => /\ last'.name \in DOMAIN meta_data'
          /\ meta_data'[last'.name] = meta_data[last'.name]]_vars

\* C3: after an add_data(name, url) that fails, the store has a record for
\* name, and the record is {dl_url: url} and nothing else.
C3_FailedAddLeavesUrlOnly ==
    (last.op = "add_data" /\ last.exc # NoExc)
        => /\ last.name \in DOMAIN meta_data
           /\ meta_data[last.name] = (DL_URL :> last.url)

\* C4: a fetch from a url whose extension is not '.zip' fails with the
\* error for an unsupported archive format (TypeError) and leaves the
\* record as it was: {dl_url: url} in add_data, the previous record in
\* update_data.
C4_NotZipRaisesTypeError ==
    [][\A n \in Names :
        /\ (last'.op = "add_data" /\ last'.name = n
                /\ DlType(last'.url) # ZIP)
            => /\ last'.exc.type = "TypeError"
               /\ n \in DOMAIN meta_data'
               /\ meta_data'[n] = (DL_URL :> last'.url)
        /\ (last'.op = "update_data" /\ last'.name = n
                /\ n \in DOMAIN meta_data
                /\ DlType(meta_data[n][DL_URL]) # ZIP)
            => /\ last'.exc.type = "TypeError"
               /\ n \in DOMAIN meta_data'
               /\ meta_data'[n] = meta_data[n]]_vars

\* C5: after a successful update_data the extra fields of the record are
\* header/value pairs of the header row this fetch read: a field of an
\* earlier fetch whose header is not in the new header row is gone.
C5_UpdateReplacesExtraFields ==
    [][(last'.op = "update_data" /\ last'.exc = NoExc)
       => LET record == meta_data'[last'.name]
              pairs == HeaderPairs(files', METAFILE)
          IN  \A k \in ExtraKeys(record) :
                  k \in DOMAIN pairs /\ record[k] = pairs[k]]_vars

\* C6: the header/value pairs a successful fetch stores in the record of a
\* dataset are those of the file recorded as the 'meta_data' path of that
\* dataset, the metadata file this fetch extracted.
C6_FieldsFromOwnMetaFile ==
    (last.op \in Fetches /\ last.exc = NoExc)
        => LET record == meta_data[last.name]
               path == record[META_DATA]
           IN  /\ path \in DOMAIN files
               /\ files[path].kind = "text"
               /\ Len(files[path].body) >= 2
               /\ \A k \in DOMAIN HeaderPairs(files, path) :
                      /\ k \in DOMAIN record
                      /\ record[k] = HeaderPairs(files, path)[k]

\* C7: the 'dl_url' of a record is the url of the latest add_data for its
\* name: add_data sets it to its argument, and no call of update_data,
\* load_data or filter_meta, and no add_data for another name, changes it.
C7_UrlSetByAddDataOnly ==
    [][/\ last'.op = "add_data"
            => /\ last'.name \in DOMAIN meta_data'
               /\ meta_data'[last'.name][DL_URL] = last'.url
       /\ \A n \in DOMAIN meta_data :
            (\/ last'.op \in {"update_data", "load_data", "filter_meta"}
             \/ last'.op = "add_data" /\ last'.name # n)
            => /\ n \in DOMAIN meta_data'
               /\ meta_data'[n][DL_URL] = meta_data[n][DL_URL]]_vars

\* C8: when add_data or update_data returns without an exception, the
\* pickle file exists and holds exactly the whole of self.meta_data.
C8_SuccessPersistsAll ==
    (last.op \in Fetches /\ last.exc = NoExc)
        => /\ store.exists
           /\ Unpickle(store) = meta_data

\* a fetch has returned, and the dict it saved has a second record, of
\* another name, that no fetch has completed
C8_Witness ==
    /\ last.op \in Fetches
    /\ last.exc = NoExc
    /\ \E n \in DOMAIN meta_data :
          n # last.name /\ UPDATED \notin DOMAIN meta_data[n]

\* C9: update_data(name) for a name that is not in the store raises
\* KeyError(name), retrieves nothing, and leaves self.meta_data, the pickle
\* file and the other files as they were.
C9_UpdateUnknownName ==
    [][(last'.op = "update_data" /\ last'.name \notin DOMAIN meta_data)
       => /\ last'.exc = Raise("KeyError", last'.name)
          /\ ~last'.retrieved
          /\ meta_data' = meta_data
          /\ store' = store
          /\ files' = files]_vars

\* update_data has been called for a name the store does not have, while
\* the store has a record of another name and a saved file
C9_Witness ==
    /\ last.op = "update_data"
    /\ last.name \notin DOMAIN meta_data
    /\ last.exc.type = "KeyError"
    /\ meta_data # EmptyDict

\* C10: load_data(name) raises the unknown-dataset error (KeyError(name))
\* when the store has no record for name, the data-not-fetched error
\* (KeyError('data_file')) when the record has no 'data_file', and
\* otherwise returns the contents of the file at the 'data_file' path; it
\* never changes self.meta_data or the pickle file.
C10_LoadData ==
    [][last'.op = "load_data"
       => LET n == last'.name
          IN  /\ meta_data' = meta_data
              /\ store' = store
              /\ IF n \notin DOMAIN meta_data
                 THEN last'.exc = Raise("KeyError", n)
                 ELSE IF DATA_FILE \notin DOMAIN meta_data[n]
                 THEN last'.exc = Raise("KeyError", DATA_FILE)
                 ELSE /\ last'.exc = NoExc
                      /\ meta_data[n][DATA_FILE] \in DOMAIN files
                      /\ last'.ret = files[meta_data[n][DATA_FILE]].body]_vars

\* the store without the record of data_name
Without(md, data_name) == [m \in (DOMAIN md) \ {data_name} |-> md[m]]

\* C11: add_data(name, url) for a name that is already tracked replaces the
\* record: the record after the call, failed or not, and the way the call
\* ends are those of the same call on a store that has no record for name,
\* so nothing of the previous record is carried over.
C11_AddDataReplacesRecord ==
    [][last'.op = "add_data"
       => LET n == last'.name
              fresh == add_data(Without(meta_data, n), files, store, n,
                                last'.url, last'.env, clock)
          IN  /\ n \in DOMAIN meta_data'
              /\ meta_data'[n] = fresh.md[n]
              /\ last'.exc = fresh.exc]_vars

\* add_data has failed for a name whose saved record is that of a completed
\* fetch, and the record it leaves has no 'updated'
C11_Witness ==
    /\ last.op = "add_data"
    /\ last.exc # NoExc
    /\ last.name \in store.names
    /\ UPDATED \in DOMAIN Unpickle(store)[last.name]
    /\ UPDATED \notin DOMAIN meta_data[last.name]

\* C12: the names in the store are the names loaded from the pickle file
\* and the names add_data was called for: add_data adds its name (also
\* when it fails), the constructor loads the names of the file, and
\* update_data, load_data and filter_meta leave the set of names as it is.
C12_NamesFromAddData ==
    [][/\ last'.op = "add_data"
            => DOMAIN meta_data' = (DOMAIN meta_data) \cup {last'.name}
       /\ last'.op \in {"update_data", "load_data", "filter_meta"}
            => DOMAIN meta_data' = DOMAIN meta_data
       /\ last'.op = "init"
            => DOMAIN meta_data' = IF store.exists THEN store.names ELSE {}
      ]_vars

\* a failed add_data has left a name in the store that the file does not have
C12_Witness ==
    /\ last.op = "add_data"
    /\ last.exc # NoExc
    /\ last.name \in DOMAIN meta_data
    /\ last.name \notin store.names

\* C13: after a successful add_data against an archive listing [d, m, ...]
\* the record has 'data_file' = RawData/d, 'meta_data' = RawData/m,
\* 'updated' set, and as extra fields exactly the pairing of the header row
\* of m with its value row.
C13_HappyPath ==
    (last.op = "add_data" /\ last.exc = NoExc)
        => LET listing == last.env.served.body
               record == meta_data[last.name]
           IN  /\ Len(listing) >= 2
               /\ record[DATA_FILE] = RAWDATA \o listing[1].name
               /\ record[META_DATA] = RAWDATA \o listing[2].name
               /\ UPDATED \in DOMAIN record
               /\ Len(listing[2].rows) >= 2
               /\ [k \in ExtraKeys(record) |-> record[k]]
                      = ZipDict([i \in 1..Len(listing[2].rows[1]) |->
                                    CleanHeader(listing[2].rows[1][i])],
                                listing[2].rows[2])

\* the call of last', made again where the downloaded file can be deleted
WithUnlink(md, fs, st, now, call) ==
    LET env == [call.env EXCEPT !.unlink_ok = TRUE]
    IN  IF call.op = "add_data"
        THEN add_data(md, fs, st, call.name, call.url, env, now)
        ELSE update_data(md, fs, st, call.name, env, now)

\* C14: when the downloaded file cannot be deleted at the end of a fetch
\* that otherwise succeeds, the call returns normally all the same, with
\* the record it would have had, and the store is saved.
C14_UnlinkFailureIsNotFatal ==
    [][(last'.op \in Fetches /\ ~last'.env.unlink_ok)
       => LET clean == WithUnlink(meta_data, files, store, clock, last')
          IN  clean.exc = NoExc
                  => /\ last'.exc = NoExc
                     /\ meta_data' = clean.md
                     /\ store'.exists
                     /\ Unpickle(store') = meta_data']_vars

\* a fetch has returned normally, the record is stamped, and the downloaded
\* file is still there because it could not be deleted
C14_Witness ==
    /\ last.op \in Fetches
    /\ ~last.env.unlink_ok
    /\ last.exc = NoExc
    /\ (TEMP \o ZIP) \in DOMAIN files
    /\ UPDATED \in DOMAIN meta_data[last.name]
    /\ Unpickle(store) = meta_data

\* C16: the constructor loads the dict from the pickle file when the file
\* exists, without writing it, and otherwise starts with an empty dict and
\* saves it: when it returns the file exists and holds self.meta_data.
C16_ConstructorLoadsOrCreates ==
    /\ [](last.op = "init"
            => /\ store.exists
               /\ Unpickle(store) = meta_data)
    /\ [][last'.op = "init"
            => IF store.exists
               THEN meta_data' = Unpickle(store) /\ store' = store
               ELSE meta_data' = EmptyDict]_vars

\* a constructor has loaded a dict of two records from the file
C16_Witness ==
    /\ last.op = "init"
    /\ DOMAIN meta_data = Names
    /\ store.names = Names

C18_FilterMetaIsPure ==
    [][last'.op = "filter_meta"
       => /\ meta_data' = meta_data
          /\ store' = store
          /\ files' = files
          /\ \A n \in DOMAIN last'.ret :
                DOMAIN last'.ret[n] \subseteq last'.attributes]_vars

\* filter_meta has returned a record that has some, not all, of the keys of
\* the stored record
C18_Witness ==
    /\ last.op = "filter_meta"
    /\ \E n \in DOMAIN last.ret :
          /\ DOMAIN last.ret[n] # {}
          /\ DOMAIN last.ret[n] # DOMAIN meta_data[n]

\* C19: filter_meta(attributes) returns a dict with the names of the store,
\* and per name the keys of the stored record that are in attributes, with
\* the stored values; a record with none of them maps to an empty dict.
C19_FilterMetaResult ==
    last.op = "filter_meta"
        => /\ DOMAIN last.ret = DOMAIN meta_data
           /\ \A n \in DOMAIN meta_data :
                /\ n \in DOMAIN last.ret
                /\ DOMAIN last.ret[n] = (DOMAIN meta_data[n]) \cap last.attributes
                /\ \A k \in (DOMAIN meta_data[n]) \cap last.attributes :
                      last.ret[n][k] = meta_data[n][k]

\* filter_meta was asked for attributes of which one record has none and
\* another has some but not all
C19_Witness ==
    /\ last.op = "filter_meta"
    /\ last.attributes # {}
    /\ \E n \in DOMAIN last.ret : last.ret[n] = EmptyDict
    /\ \E n \in DOMAIN last.ret :
          /\ last.ret[n] # EmptyDict
          /\ ~(last.attributes \subseteq DOMAIN meta_data[n])

\* two records agree on 'updated': both lack it or both have the same time
SameUpdated(r1, r2) ==
    /\ (UPDATED \in DOMAIN r1) <=> (UPDATED \in DOMAIN r2)
    /\ UPDATED \in DOMAIN r1 => r1[UPDATED] = r2[UPDATED]

\* C20: 'updated' is the time of the latest successful fetch of the record:
\* every successful add_data or update_data sets it to the time of the call,
\* a failed update_data leaves it as it was (absent or the earlier time), a
\* failed add_data leaves its new record without it, and it is never later
\* than the clock.
C20_UpdatedIsLastSuccess ==
    /\ [](\A n \in DOMAIN meta_data :
            UPDATED \in DOMAIN meta_data[n] => meta_data[n][UPDATED] < clock)
    /\ [][LET n == last'.name
          IN  /\ (last'.op \in Fetches /\ last'.exc = NoExc)
                    => /\ UPDATED \in DOMAIN meta_data'[n]
                       /\ meta_data'[n][UPDATED] = clock
              /\ (last'.op = "update_data" /\ last'.exc # NoExc
                        /\ n \in DOMAIN meta_data)
                    => /\ n \in DOMAIN meta_data'
                       /\ SameUpdated(meta_data[n], meta_data'[n])
              /\ (last'.op = "add_data" /\ last'.exc # NoExc)
                    => UPDATED \notin DOMAIN meta_data'[n]]_vars

\* a second fetch of a record has succeeded, after an earlier one that the
\* file of that time recorded, and the record bears the later time
C20_Witness ==
    /\ last.op = "update_data"
    /\ last.exc = NoExc
    /\ meta_data[last.name][UPDATED] = 1
    /\ H_A \in DOMAIN meta_data[last.name]
    /\ meta_data[last.name][DATA_FILE] = RAWDATA \o D2

\* C21: for every response, _get and _post raise ServerFailedError with the
\* status code when the status code is 500 or more, whatever the text;
\* otherwise EmptyJsonError with the url (and, for _post, the body) when the
\* text is empty; otherwise they return the text parsed as JSON.
C21_TransportClassifies ==
    (query.fn \in {"_get", "_post"} /\ query.result.kind = "response")
        => IF query.result.status_code >= 500
           THEN /\ query.exc.type = "ServerFailedError"
                /\ query.exc.arg = PyStr(query.result.status_code)
           ELSE IF query.result.text = <<>>
           THEN /\ query.exc.type = "EmptyJsonError"
                /\ query.exc.arg.url = query.url
                /\ query.exc.arg.json = query.json
           ELSE JsonLoads(query.result.text).exc.type = "None"
                    => /\ query.exc.type = "None"
                       /\ query.ret = JsonLoads(query.result.text).value

\* _post has met a response with status code 503 and no text, and has
\* raised ServerFailedError with "503"
C21_Witness ==
    /\ query.fn = "_post"
    /\ query.result = Response(503, TEXT_EMPTY)
    /\ query.exc.type = "ServerFailedError"
    /\ query.exc.arg = <<"5", "0", "3">>

C23_FailedFetchPersistsNothing ==
    [][/\ (last'.op \in Fetches /\ last'.exc.type # "None")
              => store' = store
       /\ (last'.op \in Fetches /\ last'.exc.type = "None")
              => /\ store'.exists
                 /\ Unpickle(store') = meta_data'
       /\ last'.op = "init"
              => /\ store'.exists
                 /\ Unpickle(store') = meta_data'
                 /\ store.exists => store' = store
       /\ last'.op \in {"load_data", "filter_meta"}
              => store' = store]_vars

\* add_data has failed for a name the saved file does not know, after an
\* earlier fetch that was saved: the dict has the name with its url, the
\* file has not
C23_Witness ==
    /\ last.op = "add_data"
    /\ last.exc.type # "None"
    /\ last.name \in DOMAIN meta_data
    /\ meta_data[last.name][DL_URL] = last.url
    /\ store.exists
    /\ Unpickle(store) # EmptyDict
    /\ last.name \notin DOMAIN Unpickle(store)

\* C24: a fetch from a url whose extension is not '.zip' fails without
\* calling urlretrieve, and leaves the files below RawData/ as they were:
\* no temporary file is written.
C24_FormatCheckedBeforeRetrieval ==
    [][(\/ /\ last'.op = "add_data"
           /\ DlType(last'.url) # ZIP
        \/ /\ last'.op = "update_data"
           /\ last'.name \in DOMAIN meta_data
           /\ DL_URL \in DOMAIN meta_data[last'.name]
           /\ DlType(meta_data[last'.name][DL_URL]) # ZIP)
            => /\ last'.exc.type # "None"
               /\ ~last'.retrieved
               /\ files' = files]_vars

\* C25: add_data and update_data of a name leave the record of every other
\* name as it was, whether they succeed or fail, and add no other name.
C25_OtherRecordsUntouched ==
    [][last'.op \in Fetches
          => /\ \A n \in (DOMAIN meta_data) \ {last'.name} :
                   /\ n \in DOMAIN meta_data'
                   /\ meta_data'[n] = meta_data[n]
             /\ DOMAIN meta_data' \subseteq (DOMAIN meta_data) \cup {last'.name}]_vars

\* a fetch of one name has succeeded and has left its header/value pairs in
\* its record, while the other name has a fetched record of its own
C25_Witness ==
    /\ last.op \in Fetches
    /\ last.exc.type = "None"
    /\ ExtraKeys(meta_data[last.name]) # {}
    /\ \E n \in (DOMAIN meta_data) \ {last.name} :
          /\ UPDATED \in DOMAIN meta_data[n]
          /\ ExtraKeys(meta_data[n]) # ExtraKeys(meta_data[last.name])

\* C26: a fetch for one name leaves the files that the fetched records of
\* the other names give as 'data_file' and 'meta_data' with the contents
\* they had, so that load_data of another name returns what it returned
\* before.
C26_ArtifactsIsolated ==
    [][last'.op \in Fetches
          => \A n \in (DOMAIN meta_data) \ {last'.name} :
                \A key \in {DATA_FILE, META_DATA} :
                   (/\ UPDATED \in DOMAIN meta_data[n]
                    /\ key \in DOMAIN meta_data[n]
                    /\ meta_data[n][key] \in DOMAIN files)
                       => /\ meta_data[n][key] \in DOMAIN files'
                          /\ files'[meta_data[n][key]]
                                = files[meta_data[n][key]]]_vars

\* C15: a call that no other call overlaps opens the archive it retrieved
\* itself; a call can open another archive than the one it retrieved only
\* when another add_data or update_data was running at the same time.
C15_OwnArchiveUnlessOverlapped ==
    \A t \in Callers :
        (/\ calls[t].pc = "done"
         /\ ~calls[t].overlapped
         /\ calls[t].retrieved # Unreachable
         /\ DlType(calls[t].url) = ZIP)
            => calls[t].opened = calls[t].retrieved

\* two overlapping calls for different data tables have returned, and one
\* of them has opened the archive the other retrieved: its record has the
\* 'data_file' path of the other's archive, not of its own
C15_Witness ==
    \E t, u \in Callers :
        /\ t # u
        /\ calls[t].pc = "done" /\ calls[u].pc = "done"
        /\ calls[t].name # calls[u].name
        /\ DlType(calls[t].url) = DlType(calls[u].url)
        /\ calls[t].opened = calls[u].retrieved
        /\ calls[t].opened # calls[t].retrieved
        /\ calls[t].retrieved.kind = "zip"
        /\ Len(calls[t].retrieved.body) >= 2
        /\ calls[t].opened.kind = "zip"
        /\ Len(calls[t].opened.body) >= 2
        /\ UPDATED \in DOMAIN meta_data[calls[t].name]
        /\ meta_data[calls[t].name][DATA_FILE]
               = RAWDATA \o calls[t].opened.body[1].name
        /\ meta_data[calls[t].name][DATA_FILE]
               # RAWDATA \o calls[t].retrieved.body[1].name

====
